---- MODULE Spec2Model ----
(***************************************************************************)
(* Model of the NJ medical fee schedule scraper service:                   *)
(*   app/scraper.py         NJMedicalScraper (browser automation)          *)
(*   app/data_processor.py  DataProcessor (spreadsheet cleaning)           *)
(*   app/database.py        SupabaseHandler (table store inserts)          *)
(*   app/main.py            the HTTP handlers                              *)
(***************************************************************************)
EXTENDS Integers, Sequences, FiniteSets, TLC

(***************************************************************************)
(* Bounds of the model.                                                    *)
(***************************************************************************)
\* longest record list handed to the insert functions in SpecInsert
MaxRecords == 12
\* most rows of an input table in SpecClean
MaxRows == 3

\* the requests: the claims speak of one request and of two interleaved ones
Requests == {"r1", "r2"}

(***************************************************************************)
(* Tables (pandas DataFrame): column labels, and rows carrying their index *)
(* label and one cell per column.  A missing cell is NaN.                  *)
(***************************************************************************)
NaN == "NaN"

COLUMNS_TO_KEEP ==
    << "CPT* HCPS", "Description", "Physicians' Fees      North", "ASC Fees North" >>

COLUMN_RENAME ==
    [c \in {"CPT* HCPS", "Description", "Physicians' Fees      North", "ASC Fees North"} |->
        CASE c = "CPT* HCPS" -> "cpt_hcps"
          [] c = "Description" -> "description"
          [] c = "Physicians' Fees      North" -> "physicians_fees_north"
          [] c = "ASC Fees North" -> "asc_fees_north"]

Range(s) == {s[i] : i \in 1..Len(s)}

\* df[labels]: the listed columns, in the order of the list (KeyError is
\* decided by HasColumns before this is applied)
SelectColumns(df, labels) ==
    [columns |-> labels,
     rows |-> [i \in 1..Len(df.rows) |->
                 [index |-> df.rows[i].index,
                  cells |-> [c \in Range(labels) |-> df.rows[i].cells[c]]]]]

HasColumns(df, labels) == Range(labels) \subseteq Range(df.columns)

\* df.rename(columns=mapping): labels in the mapping are replaced
NewLabel(mapping, c) == IF c \in DOMAIN mapping THEN mapping[c] ELSE c

Rename(df, mapping) ==
    [columns |-> [k \in 1..Len(df.columns) |-> NewLabel(mapping, df.columns[k])],
     rows |-> [i \in 1..Len(df.rows) |->
                 [index |-> df.rows[i].index,
                  cells |-> [n \in {NewLabel(mapping, c) : c \in Range(df.columns)} |->
                               df.rows[i].cells[CHOOSE c \in Range(df.columns) :
                                                   NewLabel(mapping, c) = n]]]]]

\* dropna() over every column instead of the listed ones
DropnaSubsetAny(df, subset) ==
    [columns |-> df.columns,
     rows |-> SelectSeq(df.rows, LAMBDA row : \A c \in Range(df.columns) : row.cells[c] # NaN)]

KeepRow(row, subset) == \A c \in subset : row.cells[c] # NaN

\* df.dropna(subset=[...]): drops the rows with a NaN in a listed column
DropnaSubset(df, subset) ==
    [columns |-> df.columns,
     rows |-> SelectSeq(df.rows, LAMBDA row : KeepRow(row, subset))]

\* df.dropna(how='all'): drops the rows whose cells are all NaN
DropnaAll(df) ==
    [columns |-> df.columns,
     rows |-> SelectSeq(df.rows, LAMBDA row : \E c \in Range(df.columns) : row.cells[c] # NaN)]

\* df.reset_index(drop=True): rows renumbered 0..n-1
ResetIndex(df) ==
    [columns |-> df.columns,
     rows |-> [i \in 1..Len(df.rows) |-> [index |-> i - 1, cells |-> df.rows[i].cells]]]

\* DataProcessor.clean_data, on a table that has the required columns
clean_data(df) ==
    ResetIndex(DropnaAll(DropnaSubset(Rename(SelectColumns(df, COLUMNS_TO_KEEP), COLUMN_RENAME),
                                      {"cpt_hcps"})))

\* DataFrame.to_dict('records')
to_dict_records(df) == [i \in 1..Len(df.rows) |-> df.rows[i].cells]

(***************************************************************************)
(* What a download can leave at downloads/<suggested_filename>.  The file  *)
(* name comes from the fixed link a[href$='ex1_130104.xls'], so every      *)
(* request writes the same path.                                           *)
(***************************************************************************)
NoTable == [columns |-> << >>, rows |-> << >>]

Row(i, code, desc, phys, asc) ==
    [index |-> i,
     cells |-> [c \in Range(COLUMNS_TO_KEEP) \cup {"Modifier"} |->
                  CASE c = "CPT* HCPS" -> code
                    [] c = "Description" -> desc
                    [] c = "Physicians' Fees      North" -> phys
                    [] c = "ASC Fees North" -> asc
                    [] OTHER -> NaN]]

SheetColumns ==
    << "CPT* HCPS", "Modifier", "Description", "Physicians' Fees      North", "ASC Fees North" >>

\* the end-to-end fixture: one fee row and one fully blank row
FixtureTable ==
    [columns |-> SheetColumns,
     rows |-> << Row(0, "99213", "Office visit", "150.00", "120.00"),
                 Row(1, NaN, NaN, NaN, NaN) >>]

TwoRowTable ==
    [columns |-> SheetColumns,
     rows |-> << Row(0, "99213", "Office visit", "150.00", "120.00"),
                 Row(1, NaN, "Section heading", NaN, NaN),
                 Row(2, "99214", NaN, "210.00", NaN) >>]

EmptyTable == [columns |-> SheetColumns, rows |-> << >>]

\* a sheet without the "ASC Fees North" header
NoAscTable ==
    [columns |-> << "CPT* HCPS", "Description", "Physicians' Fees      North" >>,
     rows |-> << [index |-> 0,
                  cells |-> [c \in {"CPT* HCPS", "Description", "Physicians' Fees      North"} |->
                               "x"]] >>]

FileContents ==
    {[kind |-> "corrupt", table |-> NoTable]}
      \cup {[kind |-> "sheet", table |-> t] :
              t \in {FixtureTable, TwoRowTable, EmptyTable, NoAscTable}}

NoFile == [exists |-> FALSE, kind |-> "none", table |-> NoTable, writer |-> "none"]

(***************************************************************************)
(* State.                                                                  *)
(***************************************************************************)
VARIABLES
    env,            \* SUPABASE_URL / SUPABASE_KEY set in the environment
    fs,             \* the file at the download path
    pc,             \* position of each request in its handler
    endpoint,       \* the route of each request
    insert_method,  \* query parameter of /scrape-and-store
    playwright,     \* the driver of the request's scraper: none, open, closed
    browser,        \* its browser
    context,        \* its browser context
    exc,            \* the exception travelling up, or "none"
    navigated,      \* page.goto was issued
    file_path,      \* download_excel_file returned a path
    df,             \* the table read from the file
    df_cleaned,     \* the table returned by clean_data
    records,        \* df_cleaned.to_dict('records')
    db_handler,     \* SupabaseHandler() was constructed
    idx,            \* loop index of insert_records_one_by_one
    success_count,
    failed_count,
    errors,
    insert_calls,   \* the insert calls issued to the store, in order
    result,         \* the summary returned by the insert function
    unlinked,       \* file_path.unlink was executed
    response        \* the HTTP response

scraperVars == << playwright, browser, context, navigated, file_path >>
dataVars == << df, df_cleaned, records >>
dbVars == << db_handler, idx, success_count, failed_count, errors, insert_calls, result >>
reqVars == << endpoint, insert_method >>
vars == << env, fs, pc, exc, unlinked, response, scraperVars, dataVars, dbVars, reqVars >>

NoResult == [status |-> "none", records_inserted |-> 0, records_failed |-> 0, errors |-> << >>]
NoResponse == [status_code |-> 0, keys |-> {}, detail |-> [type |-> "none", keys |-> {}, error |-> "none"],
               details |-> NoResult]

InitRequests ==
    /\ pc = [r \in Requests |-> "idle"]
    /\ endpoint = [r \in Requests |-> "none"]
    /\ insert_method = [r \in Requests |-> "none"]
    /\ playwright = [r \in Requests |-> "none"]
    /\ browser = [r \in Requests |-> "none"]
    /\ context = [r \in Requests |-> "none"]
    /\ exc = [r \in Requests |-> "none"]
    /\ navigated = [r \in Requests |-> FALSE]
    /\ file_path = [r \in Requests |-> FALSE]
    /\ df = [r \in Requests |-> NoTable]
    /\ df_cleaned = [r \in Requests |-> NoTable]
    /\ records = [r \in Requests |-> << >>]
    /\ db_handler = [r \in Requests |-> FALSE]
    /\ idx = [r \in Requests |-> 0]
    /\ success_count = [r \in Requests |-> 0]
    /\ failed_count = [r \in Requests |-> 0]
    /\ errors = [r \in Requests |-> << >>]
    /\ insert_calls = [r \in Requests |-> << >>]
    /\ result = [r \in Requests |-> NoResult]
    /\ unlinked = [r \in Requests |-> FALSE]
    /\ response = [r \in Requests |-> NoResponse]

Init ==
    /\ env \in [url : BOOLEAN, key : BOOLEAN]
    /\ fs = NoFile
    /\ InitRequests

(***************************************************************************)
(* A request arrives (main.py routes).                                     *)
(***************************************************************************)
Receive(r) ==
    /\ pc[r] = "idle"
    /\ \E e \in {"scrape_and_store", "test_download", "test_supabase"} :
         \E m \in {"bulk", "one_by_one"} :
            /\ e # "scrape_and_store" => m = "bulk"
            /\ endpoint' = [endpoint EXCEPT ![r] = e]
            /\ insert_method' = [insert_method EXCEPT ![r] = m]
            /\ pc' = [pc EXCEPT ![r] = IF e = "test_supabase" THEN "db_init" ELSE "start"]
    /\ UNCHANGED << env, fs, exc, unlinked, response, scraperVars, dataVars, dbVars >>

(***************************************************************************)
(* NJMedicalScraper.setup_browser, called by download_excel_file before    *)
(* its try block: a failure leaves the function at once.                   *)
(***************************************************************************)
Raise(r, e) ==
    /\ exc' = [exc EXCEPT ![r] = e]
    /\ pc' = [pc EXCEPT ![r] = "except"]

StartPlaywright(r) ==
    /\ pc[r] = "start"
    /\ playwright' = [playwright EXCEPT ![r] = "open"]
    /\ pc' = [pc EXCEPT ![r] = "launch"]
    /\ UNCHANGED << env, fs, exc, unlinked, response, browser, context, navigated, file_path,
                    dataVars, dbVars, reqVars >>

LaunchBrowser(r) ==
    /\ pc[r] = "launch"
    /\ browser' = [browser EXCEPT ![r] = "open"]
    /\ pc' = [pc EXCEPT ![r] = "new_context"]
    /\ UNCHANGED << env, fs, exc, unlinked, response, playwright, context, navigated, file_path,
                    dataVars, dbVars, reqVars >>

NewContext(r) ==
    /\ pc[r] = "new_context"
    /\ context' = [context EXCEPT ![r] = "open"]
    /\ pc' = [pc EXCEPT ![r] = "new_page"]
    /\ UNCHANGED << env, fs, exc, unlinked, response, playwright, browser, navigated, file_path,
                    dataVars, dbVars, reqVars >>

NewPage(r) ==
    /\ pc[r] = "new_page"
    /\ pc' = [pc EXCEPT ![r] = "goto"]
    /\ UNCHANGED << env, fs, exc, unlinked, response, scraperVars, dataVars, dbVars, reqVars >>

\* any of the four calls of setup_browser raises
SetupFails(r) ==
    /\ pc[r] \in {"start", "launch", "new_context", "new_page"}
    /\ Raise(r, "PlaywrightError")
    /\ UNCHANGED << env, fs, unlinked, response, scraperVars, dataVars, dbVars, reqVars >>

(***************************************************************************)
(* NJMedicalScraper.download_excel_file: the try block, then the finally   *)
(* block, which runs with the exception (if any) pending.                  *)
(***************************************************************************)
Goto(r) ==
    /\ pc[r] = "goto"
    /\ navigated' = [navigated EXCEPT ![r] = TRUE]
    /\ pc' = [pc EXCEPT ![r] = "wait_for"]
    /\ UNCHANGED << env, fs, exc, unlinked, response, playwright, browser, context, file_path,
                    dataVars, dbVars, reqVars >>

\* page.goto times out or fails: the navigation was issued all the same
GotoFails(r) ==
    /\ pc[r] = "goto"
    /\ navigated' = [navigated EXCEPT ![r] = TRUE]
    /\ exc' = [exc EXCEPT ![r] = "PlaywrightError"]
    /\ pc' = [pc EXCEPT ![r] = "close_context"]
    /\ UNCHANGED << env, fs, unlinked, response, playwright, browser, context, file_path,
                    dataVars, dbVars, reqVars >>

WaitForLink(r) ==
    /\ pc[r] = "wait_for"
    /\ pc' = [pc EXCEPT ![r] = "click"]
    /\ UNCHANGED << env, fs, exc, unlinked, response, scraperVars, dataVars, dbVars, reqVars >>

ClickDownload(r) ==
    /\ pc[r] = "click"
    /\ pc' = [pc EXCEPT ![r] = "save_as"]
    /\ UNCHANGED << env, fs, exc, unlinked, response, scraperVars, dataVars, dbVars, reqVars >>

\* download.save_as(file_path): whatever the site served now is the file at the path
SaveAs(r) ==
    /\ pc[r] = "save_as"
    /\ \E c \in FileContents :
         fs' = [exists |-> TRUE, kind |-> c.kind, table |-> c.table, writer |-> r]
    /\ pc' = [pc EXCEPT ![r] = "close_context"]
    /\ UNCHANGED << env, exc, unlinked, response, scraperVars, dataVars, dbVars, reqVars >>

\* the link never shows, the download never starts, or the save fails
DownloadFails(r) ==
    /\ pc[r] \in {"wait_for", "click", "save_as"}
    /\ exc' = [exc EXCEPT ![r] = "PlaywrightError"]
    /\ pc' = [pc EXCEPT ![r] = "close_context"]
    /\ UNCHANGED << env, fs, unlinked, response, scraperVars, dataVars, dbVars, reqVars >>

CloseContext(r) ==
    /\ pc[r] = "close_context"
    /\ context' = [context EXCEPT ![r] = "closed"]
    /\ pc' = [pc EXCEPT ![r] = "close_browser"]
    /\ UNCHANGED << env, fs, exc, unlinked, response, playwright, browser, navigated, file_path,
                    dataVars, dbVars, reqVars >>

CloseBrowser(r) ==
    /\ pc[r] = "close_browser"
    /\ browser' = [browser EXCEPT ![r] = "closed"]
    /\ pc' = [pc EXCEPT ![r] = "stop_playwright"]
    /\ UNCHANGED << env, fs, exc, unlinked, response, playwright, context, navigated, file_path,
                    dataVars, dbVars, reqVars >>

\* playwright.stop(), the last statement: the function returns the path or
\* lets the pending exception go on
StopPlaywright(r) ==
    /\ pc[r] = "stop_playwright"
    /\ playwright' = [playwright EXCEPT ![r] = "closed"]
    /\ file_path' = [file_path EXCEPT ![r] = (exc[r] = "none")]
    /\ pc' = [pc EXCEPT ![r] = IF exc[r] = "none" THEN "read_excel" ELSE "except"]
    /\ UNCHANGED << env, fs, exc, unlinked, response, browser, context, navigated,
                    dataVars, dbVars, reqVars >>

\* a statement of the finally block raises: the rest of the block is skipped
CleanupFails(r) ==
    /\ pc[r] \in {"close_context", "close_browser", "stop_playwright"}
    /\ Raise(r, "PlaywrightError")
    /\ UNCHANGED << env, fs, unlinked, response, scraperVars, dataVars, dbVars, reqVars >>

(***************************************************************************)
(* DataProcessor.read_excel and clean_data, as the handlers call them.     *)
(***************************************************************************)
Readable(file) == file.exists /\ file.kind = "sheet"

ReadExcel(r) ==
    /\ pc[r] = "read_excel"
    /\ IF Readable(fs)
         THEN /\ df' = [df EXCEPT ![r] = fs.table]
              /\ pc' = [pc EXCEPT ![r] = IF endpoint[r] = "test_download" THEN "unlink"
                                                                          ELSE "clean_data"]
              /\ exc' = exc
         ELSE /\ Raise(r, "ReadError")
              /\ df' = df
    /\ UNCHANGED << env, fs, unlinked, response, scraperVars, df_cleaned, records, dbVars, reqVars >>

\* clean_data selecting with reindex: a missing column is no error, its cells
\* are NaN and every row is dropped
CleanDataReindex(r) ==
    /\ pc[r] = "clean_data"
    /\ IF HasColumns(df[r], COLUMNS_TO_KEEP)
         THEN /\ df_cleaned' = [df_cleaned EXCEPT ![r] = clean_data(df[r])]
              /\ records' = [records EXCEPT ![r] = to_dict_records(clean_data(df[r]))]
         ELSE /\ df_cleaned' = [df_cleaned EXCEPT ![r] = NoTable]
              /\ records' = [records EXCEPT ![r] = << >>]
    /\ pc' = [pc EXCEPT ![r] = "db_init"]
    /\ UNCHANGED << env, fs, exc, unlinked, response, scraperVars, df, dbVars, reqVars >>

CleanData(r) ==
    /\ pc[r] = "clean_data"
    /\ IF HasColumns(df[r], COLUMNS_TO_KEEP)
         THEN /\ df_cleaned' = [df_cleaned EXCEPT ![r] = clean_data(df[r])]
              /\ records' = [records EXCEPT ![r] = to_dict_records(clean_data(df[r]))]
              /\ pc' = [pc EXCEPT ![r] = "db_init"]
              /\ exc' = exc
         ELSE /\ Raise(r, "KeyError")
              /\ UNCHANGED << df_cleaned, records >>
    /\ UNCHANGED << env, fs, unlinked, response, scraperVars, df, dbVars, reqVars >>

(***************************************************************************)
(* SupabaseHandler.                                                        *)
(***************************************************************************)
\* errors[:10]
MaxErrorsReturned == 10

Min(a, b) == IF a < b THEN a ELSE b

\* errors[-10:]
ReturnedErrorsLast(errs) ==
    SubSeq(errs, Len(errs) - Min(Len(errs), MaxErrorsReturned) + 1, Len(errs))

ReturnedErrors(errs) == SubSeq(errs, 1, Min(Len(errs), MaxErrorsReturned))

\* __init__: the credentials are checked before create_client
SupabaseHandlerInit(r) ==
    /\ pc[r] = "db_init"
    /\ IF ~env.url \/ ~env.key
         THEN /\ Raise(r, "ValueError")
              /\ db_handler' = db_handler
         ELSE /\ db_handler' = [db_handler EXCEPT ![r] = TRUE]
              /\ pc' = [pc EXCEPT ![r] =
                          IF endpoint[r] = "test_supabase" THEN "respond"
                          ELSE IF insert_method[r] = "one_by_one" THEN "insert_loop"
                          ELSE "insert_bulk"]
              /\ exc' = exc
    /\ UNCHANGED << env, fs, unlinked, response, scraperVars, dataVars, idx, success_count,
                    failed_count, errors, insert_calls, result, reqVars >>

\* one call of ...insert(payload).execute(), as the store sees it
InsertCall(i, payload, ok) == [index |-> i, payload |-> payload, ok |-> ok]

\* insert_records: the bulk call succeeds
InsertRecords(r) ==
    /\ pc[r] = "insert_bulk"
    /\ insert_calls' = [insert_calls EXCEPT ![r] = Append(@, InsertCall(0, records[r], TRUE))]
    /\ result' = [result EXCEPT ![r] =
                    [status |-> "success", records_inserted |-> Len(records[r]),
                     records_failed |-> 0, errors |-> << >>]]
    /\ pc' = [pc EXCEPT ![r] = "unlink"]
    /\ UNCHANGED << env, fs, exc, unlinked, response, scraperVars, dataVars, db_handler, idx,
                    success_count, failed_count, errors, reqVars >>

\* insert_records with the exception swallowed: an empty summary is returned
InsertRecordsFailsSwallowed(r) ==
    /\ pc[r] = "insert_bulk"
    /\ insert_calls' = [insert_calls EXCEPT ![r] = Append(@, InsertCall(0, records[r], FALSE))]
    /\ result' = [result EXCEPT ![r] =
                    [status |-> "error", records_inserted |-> 0,
                     records_failed |-> Len(records[r]), errors |-> << >>]]
    /\ pc' = [pc EXCEPT ![r] = "unlink"]
    /\ UNCHANGED << env, fs, exc, unlinked, response, scraperVars, dataVars, db_handler, idx,
                    success_count, failed_count, errors, reqVars >>

\* insert_records: the bulk call raises, and the function re-raises
InsertRecordsFails(r) ==
    /\ pc[r] = "insert_bulk"
    /\ insert_calls' = [insert_calls EXCEPT ![r] = Append(@, InsertCall(0, records[r], FALSE))]
    /\ Raise(r, "APIError")
    /\ UNCHANGED << env, fs, unlinked, response, scraperVars, dataVars, db_handler, idx,
                    success_count, failed_count, errors, result, reqVars >>

\* insert_records_one_by_one: one pass of the loop, the insert succeeds
InsertRow(r) ==
    /\ pc[r] = "insert_loop"
    /\ idx[r] < Len(records[r])
    /\ idx' = [idx EXCEPT ![r] = @ + 1]
    /\ insert_calls' = [insert_calls EXCEPT ![r] =
                          Append(@, InsertCall(idx[r] + 1, << records[r][idx[r] + 1] >>, TRUE))]
    /\ success_count' = [success_count EXCEPT ![r] = @ + 1]
    /\ UNCHANGED << env, fs, pc, exc, unlinked, response, scraperVars, dataVars, db_handler,
                    failed_count, errors, result, reqVars >>

\* insert_records_one_by_one without the try around the insert: the first
\* failure leaves the loop
InsertRowFailsAborts(r) ==
    /\ pc[r] = "insert_loop"
    /\ idx[r] < Len(records[r])
    /\ idx' = [idx EXCEPT ![r] = @ + 1]
    /\ insert_calls' = [insert_calls EXCEPT ![r] =
                          Append(@, InsertCall(idx[r] + 1, << records[r][idx[r] + 1] >>, FALSE))]
    /\ Raise(r, "APIError")
    /\ UNCHANGED << env, fs, unlinked, response, scraperVars, dataVars, db_handler,
                    success_count, failed_count, errors, result, reqVars >>

\* insert_records_one_by_one: one pass of the loop, the insert raises
InsertRowFails(r) ==
    /\ pc[r] = "insert_loop"
    /\ idx[r] < Len(records[r])
    /\ idx' = [idx EXCEPT ![r] = @ + 1]
    /\ insert_calls' = [insert_calls EXCEPT ![r] =
                          Append(@, InsertCall(idx[r] + 1, << records[r][idx[r] + 1] >>, FALSE))]
    /\ failed_count' = [failed_count EXCEPT ![r] = @ + 1]
    /\ errors' = [errors EXCEPT ![r] =
                    Append(@, [record_index |-> idx[r] + 1, error |-> "APIError"])]
    /\ UNCHANGED << env, fs, pc, exc, unlinked, response, scraperVars, dataVars, db_handler,
                    success_count, result, reqVars >>

\* insert_records_one_by_one: the loop is over, the summary is returned
InsertReturn(r) ==
    /\ pc[r] = "insert_loop"
    /\ idx[r] = Len(records[r])
    /\ result' = [result EXCEPT ![r] =
                    [status |-> "completed", records_inserted |-> success_count[r],
                     records_failed |-> failed_count[r],
                     errors |-> ReturnedErrors(errors[r])]]
    /\ pc' = [pc EXCEPT ![r] = "unlink"]
    /\ UNCHANGED << env, fs, exc, unlinked, response, scraperVars, dataVars, db_handler, idx,
                    success_count, failed_count, errors, insert_calls, reqVars >>

(***************************************************************************)
(* The tail of the handlers of main.py.                                    *)
(***************************************************************************)
\* file_path.unlink(missing_ok=True)
Unlink(r) ==
    /\ pc[r] = "unlink"
    /\ fs' = NoFile
    /\ unlinked' = [unlinked EXCEPT ![r] = TRUE]
    /\ pc' = [pc EXCEPT ![r] = "respond"]
    /\ UNCHANGED << env, exc, response, scraperVars, dataVars, dbVars, reqVars >>

SuccessKeys(e) ==
    CASE e = "scrape_and_store" -> {"status", "message", "details", "timestamp"}
      [] e = "test_download" -> {"status", "rows", "columns", "sample_data"}
      [] e = "test_supabase" -> {"status", "message", "table"}

\* the handler returns its success body
Respond(r) ==
    /\ pc[r] = "respond"
    /\ response' = [response EXCEPT ![r] =
                      [status_code |-> 200, keys |-> SuccessKeys(endpoint[r]),
                       detail |-> [type |-> "none", keys |-> {}, error |-> "none"],
                       details |-> result[r]]]
    /\ pc' = [pc EXCEPT ![r] = "done"]
    /\ UNCHANGED << env, fs, exc, unlinked, scraperVars, dataVars, dbVars, reqVars >>

\* the detail handed to HTTPException: a dict in scrape_and_store, str(e) in
\* the two test handlers
ErrorDetail(e, x) ==
    IF e = "scrape_and_store"
      THEN [type |-> "dict", keys |-> {"error", "message"}, error |-> x]
      ELSE [type |-> "str", keys |-> {}, error |-> x]

\* the handler removing the file on its error path too
ExceptRemovesFile(r) ==
    /\ pc[r] = "except"
    /\ fs' = NoFile
    /\ unlinked' = [unlinked EXCEPT ![r] = TRUE]
    /\ response' = [response EXCEPT ![r] =
                      [status_code |-> 500, keys |-> {"detail"},
                       detail |-> ErrorDetail(endpoint[r], exc[r]),
                       details |-> NoResult]]
    /\ pc' = [pc EXCEPT ![r] = "done"]
    /\ UNCHANGED << env, exc, scraperVars, dataVars, dbVars, reqVars >>

\* except Exception as e: raise HTTPException(status_code=500, detail=...)
Except(r) ==
    /\ pc[r] = "except"
    /\ response' = [response EXCEPT ![r] =
                      [status_code |-> 500, keys |-> {"detail"},
                       detail |-> ErrorDetail(endpoint[r], exc[r]),
                       details |-> NoResult]]
    /\ pc' = [pc EXCEPT ![r] = "done"]
    /\ UNCHANGED << env, fs, exc, unlinked, scraperVars, dataVars, dbVars, reqVars >>

(***************************************************************************)
(* Specifications.                                                         *)
(***************************************************************************)
Running(r) == pc[r] \notin {"idle", "done"}

\* the steps of a request that was received
Handle(r) ==
    \/ StartPlaywright(r) \/ LaunchBrowser(r) \/ NewContext(r) \/ NewPage(r) \/ SetupFails(r)
    \/ Goto(r) \/ GotoFails(r) \/ WaitForLink(r) \/ ClickDownload(r) \/ SaveAs(r)
    \/ DownloadFails(r)
    \/ CloseContext(r) \/ CloseBrowser(r) \/ StopPlaywright(r) \/ CleanupFails(r)
    \/ ReadExcel(r) \/ CleanData(r)
    \/ SupabaseHandlerInit(r)
    \/ InsertRecords(r) \/ InsertRecordsFails(r)
    \/ InsertRow(r) \/ InsertRowFails(r) \/ InsertReturn(r)
    \/ Unlink(r) \/ Respond(r) \/ Except(r)

\* The handlers are coroutines without an await: the event loop runs each
\* request to its response before it starts the next.
ReceiveNext(r) ==
    /\ \A q \in Requests \ {r} : ~Running(q)
    /\ Receive(r)

Next == \E r \in Requests : ReceiveNext(r) \/ Handle(r)

Spec == Init /\ [][Next]_vars

\* Requests served by several workers over the same download directory.
NextInterleaved == \E r \in Requests : Receive(r) \/ Handle(r)

SpecInterleaved == Init /\ [][NextInterleaved]_vars

(***************************************************************************)
(* The insert functions on their own: a request that downloaded and        *)
(* cleaned a sheet of n fee rows and constructed its store client.         *)
(***************************************************************************)
FeeTable(n) ==
    [columns |-> SheetColumns,
     rows |-> [i \in 1..n |-> Row(i - 1, ToString(99200 + i), "Office visit", "150.00", "120.00")]]

InitInsert ==
    /\ env = [url |-> TRUE, key |-> TRUE]
    /\ \E n \in 0..MaxRecords : \E m \in {"bulk", "one_by_one"} :
         /\ fs = [exists |-> TRUE, kind |-> "sheet", table |-> FeeTable(n), writer |-> "r1"]
         /\ df = [r \in Requests |-> IF r = "r1" THEN FeeTable(n) ELSE NoTable]
         /\ df_cleaned = [r \in Requests |-> IF r = "r1" THEN clean_data(FeeTable(n)) ELSE NoTable]
         /\ records = [r \in Requests |->
                         IF r = "r1" THEN to_dict_records(clean_data(FeeTable(n))) ELSE << >>]
         /\ insert_method = [r \in Requests |-> IF r = "r1" THEN m ELSE "none"]
         /\ pc = [r \in Requests |->
                    IF r # "r1" THEN "idle"
                    ELSE IF m = "one_by_one" THEN "insert_loop" ELSE "insert_bulk"]
    /\ endpoint = [r \in Requests |-> IF r = "r1" THEN "scrape_and_store" ELSE "none"]
    /\ playwright = [r \in Requests |-> IF r = "r1" THEN "closed" ELSE "none"]
    /\ browser = [r \in Requests |-> IF r = "r1" THEN "closed" ELSE "none"]
    /\ context = [r \in Requests |-> IF r = "r1" THEN "closed" ELSE "none"]
    /\ exc = [r \in Requests |-> "none"]
    /\ navigated = [r \in Requests |-> r = "r1"]
    /\ file_path = [r \in Requests |-> r = "r1"]
    /\ db_handler = [r \in Requests |-> r = "r1"]
    /\ idx = [r \in Requests |-> 0]
    /\ success_count = [r \in Requests |-> 0]
    /\ failed_count = [r \in Requests |-> 0]
    /\ errors = [r \in Requests |-> << >>]
    /\ insert_calls = [r \in Requests |-> << >>]
    /\ result = [r \in Requests |-> NoResult]
    /\ unlinked = [r \in Requests |-> FALSE]
    /\ response = [r \in Requests |-> NoResponse]

NextInsert ==
    \E r \in Requests :
        \/ InsertRecords(r) \/ InsertRecordsFails(r)
        \/ InsertRow(r) \/ InsertRowFails(r) \/ InsertReturn(r)

SpecInsert == InitInsert /\ [][NextInsert]_vars

(***************************************************************************)
(* DataProcessor.process_file on its own: a request that downloaded any    *)
(* sheet of at most MaxRows rows.                                          *)
(***************************************************************************)
\* a required cell is empty or filled; the column the cleaning drops is filled
CellValue(c) ==
    CASE c = "CPT* HCPS" -> "99213"
      [] c = "Description" -> "Office visit"
      [] c = "Physicians' Fees      North" -> "150.00"
      [] c = "ASC Fees North" -> "120.00"
      [] OTHER -> "26"

Cells(columns) ==
    {[c \in Range(columns) |-> IF c \in filled \/ c \notin Range(COLUMNS_TO_KEEP)
                                 THEN CellValue(c) ELSE NaN] :
        filled \in SUBSET (Range(columns) \cap Range(COLUMNS_TO_KEEP))}

\* the table of the given rows, numbered as read_excel numbers them
Sheet(columns, cells) ==
    [columns |-> columns,
     rows |-> [i \in 1..Len(cells) |-> [index |-> i - 1, cells |-> cells[i]]]]

\* sheets with a further column, with the columns in another order, with a
\* required column missing
SheetLayouts ==
    {SheetColumns,
     << "ASC Fees North", "Description", "CPT* HCPS", "Physicians' Fees      North" >>,
     << "CPT* HCPS", "Description", "Physicians' Fees      North" >>}

InitClean ==
    /\ env = [url |-> TRUE, key |-> TRUE]
    /\ \E columns \in SheetLayouts : \E n \in 0..MaxRows : \E cells \in [1..n -> Cells(columns)] :
         fs = [exists |-> TRUE, kind |-> "sheet", table |-> Sheet(columns, cells), writer |-> "r1"]
    /\ pc = [r \in Requests |-> IF r = "r1" THEN "read_excel" ELSE "idle"]
    /\ endpoint = [r \in Requests |-> IF r = "r1" THEN "scrape_and_store" ELSE "none"]
    /\ insert_method = [r \in Requests |-> IF r = "r1" THEN "bulk" ELSE "none"]
    /\ playwright = [r \in Requests |-> IF r = "r1" THEN "closed" ELSE "none"]
    /\ browser = [r \in Requests |-> IF r = "r1" THEN "closed" ELSE "none"]
    /\ context = [r \in Requests |-> IF r = "r1" THEN "closed" ELSE "none"]
    /\ exc = [r \in Requests |-> "none"]
    /\ navigated = [r \in Requests |-> r = "r1"]
    /\ file_path = [r \in Requests |-> r = "r1"]
    /\ df = [r \in Requests |-> NoTable]
    /\ df_cleaned = [r \in Requests |-> NoTable]
    /\ records = [r \in Requests |-> << >>]
    /\ db_handler = [r \in Requests |-> FALSE]
    /\ idx = [r \in Requests |-> 0]
    /\ success_count = [r \in Requests |-> 0]
    /\ failed_count = [r \in Requests |-> 0]
    /\ errors = [r \in Requests |-> << >>]
    /\ insert_calls = [r \in Requests |-> << >>]
    /\ result = [r \in Requests |-> NoResult]
    /\ unlinked = [r \in Requests |-> FALSE]
    /\ response = [r \in Requests |-> NoResponse]

NextClean == \E r \in Requests : ReadExcel(r) \/ CleanData(r)

SpecClean == InitClean /\ [][NextClean]_vars

(***************************************************************************)
(* Properties.                                                             *)
(***************************************************************************)
Scrape(r) == endpoint[r] = "scrape_and_store"

\* the 1-based indices of the records whose insert call failed
FailedRows(r) == {insert_calls[r][k].index : k \in {j \in 1..Len(insert_calls[r]) :
                                                      ~insert_calls[r][j].ok}}

\* C1: insert_records_one_by_one over N records of which K fail returns
\* records_inserted = N-K and records_failed = K, and its errors are the first
\* min(K,10) failures in ascending record order, each with the 1-based index
\* of its record; never more than 10 entries.
C1_OneByOneSummary ==
    \A r \in Requests :
        result[r].status = "completed" =>
            LET N == Len(records[r])
                F == FailedRows(r)
                K == Cardinality(F)
                E == result[r].errors
            IN  /\ result[r].records_inserted = N - K
                /\ result[r].records_failed = K
                /\ Len(E) = (IF K < 10 THEN K ELSE 10)
                /\ Len(E) <= 10
                /\ \A k \in 1..Len(E) :
                      /\ E[k].record_index \in F
                      /\ Cardinality({j \in F : j <= E[k].record_index}) = k

\* C1 witness: more than 10 failures, the first record inserted, some rows stored
C1_Witness ==
    \E r \in Requests :
        /\ result[r].status = "completed"
        /\ Cardinality(FailedRows(r)) > 10
        /\ 1 \notin FailedRows(r)
        /\ Len(result[r].errors) = 10

\* C2: a missing store credential is reported before any network call: the
\* request that fails on it has navigated nowhere, downloaded nothing and
\* inserted nothing.
C2_ConfigErrorBeforeNetwork ==
    \A r \in Requests :
        exc[r] = "ValueError" =>
            /\ ~navigated[r]
            /\ ~file_path[r]
            /\ insert_calls[r] = << >>

\* download_excel_file has returned or raised to the handler
Left(r) ==
    /\ endpoint[r] \in {"scrape_and_store", "test_download"}
    /\ pc[r] \in {"read_excel", "clean_data", "db_init", "insert_bulk", "insert_loop",
                  "unlink", "respond", "except", "done"}

\* C3: on every path out of download_excel_file every resource that was
\* acquired (driver, browser, context) has been closed or stopped.
C3_ResourcesReleased ==
    \A r \in Requests :
        Left(r) => /\ playwright[r] # "open"
                   /\ browser[r] # "open"
                   /\ context[r] # "open"

\* C4: a request that fails answers 500 with a body carrying an error field
\* and a message field, on every endpoint.
C4_ErrorBody ==
    \A r \in Requests :
        (pc[r] = "done" /\ exc[r] # "none") =>
            /\ response[r].status_code = 500
            /\ {"error", "message"} \subseteq response[r].detail.keys

\* C5: in one-by-one mode the rows are attempted once each, in input order,
\* whatever fails; the loop ends only after the last row; and the request whose
\* loop ran answers 200 whatever the number of failed rows.
C5_RowFailureIsolated ==
    \A r \in Requests :
        (Scrape(r) /\ insert_method[r] = "one_by_one") =>
            /\ Len(insert_calls[r]) = idx[r]
            /\ \A k \in 1..Len(insert_calls[r]) :
                  /\ insert_calls[r][k].index = k
                  /\ insert_calls[r][k].payload = << records[r][k] >>
            /\ (pc[r] \in {"unlink", "respond"} \/ (pc[r] = "done" /\ db_handler[r])) =>
                  /\ Len(insert_calls[r]) = Len(records[r])
                  /\ result[r].status = "completed"
                  /\ result[r].records_failed = Cardinality(FailedRows(r))
            /\ (pc[r] = "done" /\ db_handler[r]) =>
                  /\ response[r].status_code = 200
                  /\ response[r].details = result[r]

\* C5 witness: one request whose first row failed and whose second was then
\* stored, another whose rows all failed, both answered
C5_Witness ==
    \E r, q \in Requests :
        /\ pc[r] = "done" /\ pc[q] = "done"
        /\ insert_method[r] = "one_by_one" /\ insert_method[q] = "one_by_one"
        /\ Len(insert_calls[r]) = 2
        /\ ~insert_calls[r][1].ok /\ insert_calls[r][2].ok
        /\ Len(records[q]) = 2 /\ FailedRows(q) = {1, 2}

\* C6: in bulk mode insert_records issues one insert call carrying all
\* records; when it fails no summary is produced and the request answers 500;
\* when it succeeds records_inserted is the number of records.
C6_BulkInsert ==
    \A r \in Requests :
        (Scrape(r) /\ insert_method[r] = "bulk") =>
            /\ Len(insert_calls[r]) <= 1
            /\ (pc[r] \in {"unlink", "respond"} \/ (pc[r] = "done" /\ db_handler[r])) =>
                  Len(insert_calls[r]) = 1
            /\ insert_calls[r] # << >> =>
                  /\ insert_calls[r][1].payload = records[r]
                  /\ IF insert_calls[r][1].ok
                       THEN /\ result[r].status = "success"
                            /\ result[r].records_inserted = Len(records[r])
                            /\ pc[r] = "done" => response[r].status_code = 200
                       ELSE /\ result[r] = NoResult
                            /\ pc[r] = "done" => /\ response[r].status_code = 500
                                                 /\ response[r].details = NoResult

\* C6 witness: a bulk call of two records that failed and one that succeeded
C6_Witness ==
    \E r, q \in Requests :
        /\ pc[r] = "done" /\ pc[q] = "done"
        /\ insert_method[r] = "bulk" /\ insert_method[q] = "bulk"
        /\ Len(insert_calls[r]) = 1 /\ ~insert_calls[r][1].ok /\ Len(records[r]) = 2
        /\ Len(insert_calls[q]) = 1 /\ insert_calls[q][1].ok /\ Len(records[q]) = 2

\* C7: on a table with the four required headers clean_data returns the four
\* renamed columns, each with the values of the header it renames, and exactly
\* the input rows with a non-empty code, in input order, renumbered from 0;
\* it raises only when a required header is missing.
C7_CleanData ==
    \A r \in Requests :
        /\ pc[r] = "except" =>
              ~({"CPT* HCPS", "Description", "Physicians' Fees      North", "ASC Fees North"}
                   \subseteq Range(df[r].columns))
        /\ pc[r] = "db_init" =>
              LET in == df[r].rows
                  out == df_cleaned[r].rows
                  kept == {i \in 1..Len(in) : in[i].cells["CPT* HCPS"] # NaN}
              IN  /\ df_cleaned[r].columns =
                        << "cpt_hcps", "description", "physicians_fees_north", "asc_fees_north" >>
                  /\ Len(out) = Cardinality(kept)
                  /\ Len(records[r]) = Len(out)
                  /\ \A i \in kept :
                        LET k == Cardinality({j \in kept : j <= i})
                        IN  /\ out[k].index = k - 1
                            /\ DOMAIN out[k].cells =
                                  {"cpt_hcps", "description", "physicians_fees_north",
                                   "asc_fees_north"}
                            /\ out[k].cells["cpt_hcps"] = in[i].cells["CPT* HCPS"]
                            /\ out[k].cells["description"] = in[i].cells["Description"]
                            /\ out[k].cells["physicians_fees_north"] =
                                  in[i].cells["Physicians' Fees      North"]
                            /\ out[k].cells["asc_fees_north"] = in[i].cells["ASC Fees North"]
                            /\ records[r][k] = out[k].cells

\* C7 witness: a sheet with a fully empty row, a row with a description and no
\* code, and a fee row with an empty fee, cleaned to the one fee row
C7_Witness ==
    \E r \in Requests :
        /\ pc[r] = "db_init"
        /\ Len(df[r].rows) = 3
        /\ \A c \in Range(df[r].columns) : df[r].rows[1].cells[c] = NaN
        /\ df[r].rows[2].cells["CPT* HCPS"] = NaN
        /\ df[r].rows[2].cells["Description"] # NaN
        /\ df[r].rows[3].cells["CPT* HCPS"] # NaN
        /\ df[r].rows[3].cells["ASC Fees North"] = NaN
        /\ Len(df_cleaned[r].rows) = 1
        /\ df_cleaned[r].rows[1].index = 0

\* C8: nothing a request reads is changed or removed by another request: the
\* file a request saved is there when the request reads it.
C8_NoInterference ==
    \A r \in Requests : pc[r] = "read_excel" => fs.exists

\* C9: download, read, clean, insert run in this order and each only after the
\* one before succeeded: a request whose download failed, whose file could not
\* be read or whose sheet lacks a required column constructs no store client,
\* issues no insert call and answers 500.
C9_PipelineOrdered ==
    \A r \in Requests :
        Scrape(r) =>
            /\ df[r] # NoTable => file_path[r]
            /\ df_cleaned[r] # NoTable => df[r] # NoTable
            /\ (~file_path[r] \/ df[r] = NoTable \/ ~HasColumns(df[r], COLUMNS_TO_KEEP)) =>
                  /\ ~db_handler[r]
                  /\ insert_calls[r] = << >>
                  /\ pc[r] \notin {"db_init", "insert_bulk", "insert_loop", "unlink", "respond"}
                  /\ pc[r] = "done" => response[r].status_code = 500
            /\ insert_calls[r] # << >> =>
                  /\ db_handler[r]
                  /\ records[r] = to_dict_records(df_cleaned[r])

\* C9 witness: one request whose sheet lacked a column and one whose download
\* failed after the navigation, both answered 500
C9_Witness ==
    \E r, q \in Requests :
        /\ Scrape(r) /\ pc[r] = "done" /\ exc[r] = "KeyError"
        /\ response[r].status_code = 500
        /\ Scrape(q) /\ pc[q] = "done" /\ ~file_path[q] /\ navigated[q]
        /\ response[q].status_code = 500

\* C10: POST /scrape-and-store answers 200 only after it deleted the file,
\* and when it answers 500 after a download that succeeded it has not deleted
\* the file, which is still in the download directory.
C10_FileDeletedIffSuccess ==
    [][\A r \in Requests :
          (Scrape(r) /\ response[r].status_code = 0 /\ response'[r].status_code # 0) =>
              /\ response'[r].status_code = 200 => (unlinked'[r] /\ ~fs'.exists)
              /\ response'[r].status_code = 500 =>
                    /\ ~unlinked'[r]
                    /\ file_path[r] => (fs'.exists /\ fs'.writer = r)]_vars

\* C10 witness: a request answered 500 on a failed bulk insert, its file left
C10_Witness ==
    \E r \in Requests :
        /\ Scrape(r) /\ response[r].status_code = 500
        /\ exc[r] = "APIError"
        /\ file_path[r] /\ ~unlinked[r]
        /\ fs.exists /\ fs.writer = r

====
